---- MODULE Spec2Model ----
(***************************************************************************)
(* Dashboard aggregation of the coaching-management backend:               *)
(* getDashboardOverview and getQuickStats (dashboardController), run        *)
(* against the Admission and User collections.                             *)
(*                                                                         *)
(* Time.  An instant is an integer number of ticks since the epoch (UTC).  *)
(* A day has TicksPerDay ticks and every month DaysPerMonth days; a year   *)
(* has 12 months.  JavaScript's Date(y, m, d) builds an instant from       *)
(* fields of the server's LOCAL zone and getFullYear/getMonth read local   *)
(* fields, while MongoDB's $year/$month read UTC fields: tz is the         *)
(* server's zone offset (local = UTC + tz ticks).                          *)
(*                                                                         *)
(* Numbers.  A non-integral double (an average, a growth percentage) is    *)
(* the exact fraction <<numerator, denominator>>, denominator > 0.  The    *)
(* growth figures of a report are held in tenths (value * 10).  A fee is   *)
(* held as its number of 1/FeeDen units, so a fee sum s is <<s, FeeDen>>.  *)
(***************************************************************************)
EXTENDS Integers, Sequences, FiniteSets, TLC

VARIABLES
  store,     \* Admission collection, in natural (insertion) order
  users,     \* User collection
  tz,        \* zone offset of the server, in ticks
  clock,     \* the server's current time (an instant)
  handler,   \* "none" | "overview" | "quickStats": the handler in flight
  req,       \* the request's caller identity (req.user)
  pc,        \* 0: no request; k >= 1: about to await query k; -1: responded
  now,       \* the handler's local `now`
  loc,       \* the handler's locals holding query results
  issued,    \* the data-store queries the request has issued, in order
  thrown,    \* the error caught by the handler's catch, or NoError
  resp,      \* the responses written to res, in order
  changes,   \* number of status changes made so far
  dirty,     \* history: a record was written since the request in flight began
  prev,      \* history: last successful overview since the last write
  arg,       \* input pair of the growth computation (pure-function check)
  ret        \* its result

vars == <<store, users, tz, clock, handler, req, pc, now, loc, issued, thrown,
          resp, changes, dirty, prev, arg, ret>>

-----------------------------------------------------------------------------
(* Bounds of the model *)

MaxAdmissions == 2
MaxUsers == 1
MaxStatusChanges == 1
MaxCount == 20
FeeDen == 2
TicksPerDay == 2
DaysPerMonth == 2

(* Program constants *)

MonthsPerYear == 12
TrendBack == 5
RecentLimit == 5

TicksPerMonth == DaysPerMonth * TicksPerDay

-----------------------------------------------------------------------------
(* Calendar *)

\* UTC fields (month 0-based, day 1-based, tick of day) to an instant.  The
\* arithmetic is linear, so out-of-range fields roll over as in Date().
MkInstant(y, m, d, h) ==
  ((y * MonthsPerYear + m) * DaysPerMonth + (d - 1)) * TicksPerDay + h

MonthIndex(t) == t \div TicksPerMonth

\* new Date(year, monthIndex, day): midnight of that LOCAL date.
NewDate(y, m, d) == MkInstant(y, m, d, 0) - tz

\* Date.prototype.getFullYear / getMonth: local fields.
getFullYear(t) == MonthIndex(t + tz) \div MonthsPerYear
getMonth(t) == MonthIndex(t + tz) % MonthsPerYear

\* MongoDB $year / $month: UTC fields, month 1-based.
YearOp(t) == MonthIndex(t) \div MonthsPerYear
MonthOp(t) == (MonthIndex(t) % MonthsPerYear) + 1

\* Mutant: the current instant instead of the first of its month.
startOfMonthBug(n) == n

startOfMonth(n) == NewDate(getFullYear(n), getMonth(n), 1)
startOfLastMonth(n) == NewDate(getFullYear(n), getMonth(n) - 1, 1)
endOfLastMonth(n) == NewDate(getFullYear(n), getMonth(n), 0)
trendStart(n) == NewDate(getFullYear(n), getMonth(n) - TrendBack, 1)

-----------------------------------------------------------------------------
(* Numbers *)

\* Math.round of the fraction n/d (d > 0): floor(x + 1/2).
MathRound(q) == (2 * q[1] + q[2]) \div (2 * q[2])

Frac(n) == <<n, 1>>

\* Mutant: no growth reported from an empty prior period.
GrowthBug(cur, prior) ==
  IF prior > 0 THEN <<(cur - prior) * 100, prior>> ELSE Frac(0)

\* studentGrowth / admissionGrowth before rounding.
Growth(cur, prior) ==
  IF prior > 0 THEN <<(cur - prior) * 100, prior>>
  ELSE IF cur > 0 THEN Frac(100)
  ELSE Frac(0)

\* Math.round(g * 10) / 10, held in tenths.
RoundTenths(g) == MathRound(<<g[1] * 10, g[2]>>)

-----------------------------------------------------------------------------
(* Data-store queries *)

Ids == 1..Len(store)

RECURSIVE SumFee(_)
SumFee(S) ==
  IF S = {} THEN 0
  ELSE LET i == CHOOSE j \in S : TRUE
       IN store[i].monthlyFee + SumFee(S \ {i})

RECURSIVE SortAsc(_)
SortAsc(S) ==
  IF S = {} THEN <<>>
  ELSE LET k == CHOOSE x \in S : \A y \in S : x <= y
       IN <<k>> \o SortAsc(S \ {k})

IsActive(a) == a.status = "active"

\* Admission.countDocuments(filter), given the documents the filter matches.
CountDocuments(matching) == Cardinality(matching)

ActiveIds == {i \in Ids : IsActive(store[i])}

InLastMonth(a, n) ==
  a.admissionDate >= startOfLastMonth(n) /\ a.admissionDate <= endOfLastMonth(n)

QTotalStudents == CountDocuments(ActiveIds)

QStudentsThisMonth(n) ==
  CountDocuments({i \in Ids : /\ IsActive(store[i])
                              /\ store[i].admissionDate >= startOfMonth(n)})

QStudentsLastMonth(n) ==
  CountDocuments({i \in Ids : IsActive(store[i]) /\ InLastMonth(store[i], n)})

QTotalTeachers ==
  Cardinality({i \in 1..Len(users) :
                 users[i].role \in {"teacher", "admin"} /\ users[i].isActive})

QNewAdmissionsThisMonth(n) ==
  CountDocuments({i \in Ids : store[i].admissionDate >= startOfMonth(n)})

QNewAdmissionsLastMonth(n) ==
  CountDocuments({i \in Ids : InLastMonth(store[i], n)})

QPendingAdmissions ==
  CountDocuments({i \in Ids : store[i].status = "pending"})

QInactiveStudents ==
  CountDocuments({i \in Ids : store[i].status \in {"inactive", "completed"}})

\* Mutant: the $match stage left out.
QRevenueDataBug ==
  IF Ids = {} THEN <<>>
  ELSE <<[totalMonthlyRevenue |-> <<SumFee(Ids), FeeDen>>,
          avgMonthlyFee |-> <<SumFee(Ids), FeeDen * Cardinality(Ids)>>]>>

\* $match active, $group _id: null with $sum and $avg: no group, hence an
\* empty result, when nothing matches.
QRevenueData ==
  IF ActiveIds = {} THEN <<>>
  ELSE <<[totalMonthlyRevenue |-> <<SumFee(ActiveIds), FeeDen>>,
          avgMonthlyFee |->
            <<SumFee(ActiveIds), FeeDen * Cardinality(ActiveIds)>>]>>

\* $match active, $group by the field with count, $sort _id ascending; key
\* gives each document's value of the field.
GroupCount(key) ==
  LET keys == SortAsc({key[i] : i \in ActiveIds})
  IN [j \in 1..Len(keys) |->
        [_id |-> keys[j],
         count |-> Cardinality({i \in ActiveIds : key[i] = keys[j]})]]

\* Mutant: pending admissions grouped too.
QStudentsByClassBug ==
  LET all == {i \in Ids : store[i].status \in {"active", "pending"}}
      keys == SortAsc({store[i].class : i \in all})
  IN [j \in 1..Len(keys) |->
        [_id |-> keys[j],
         count |-> Cardinality({i \in all : store[i].class = keys[j]})]]

QStudentsByClass == GroupCount([i \in Ids |-> store[i].class])

QStudentsByBatch == GroupCount([i \in Ids |-> store[i].batch])

\* find().sort({admissionDate: -1}).limit(5).select(...): newest first, equal
\* dates kept in natural order.
RECURSIVE SortRecent(_)
SortRecent(S) ==
  IF S = {} THEN <<>>
  ELSE LET i == CHOOSE j \in S : \A k \in S :
                  \/ store[j].admissionDate > store[k].admissionDate
                  \/ store[j].admissionDate = store[k].admissionDate /\ j <= k
       IN <<i>> \o SortRecent(S \ {i})

Select(i) ==
  [_id |-> i, class |-> store[i].class, batch |-> store[i].batch,
   admissionDate |-> store[i].admissionDate, status |-> store[i].status]

QRecentAdmissions ==
  LET s == SortRecent(Ids)
      m == IF Len(s) < RecentLimit THEN Len(s) ELSE RecentLimit
  IN [j \in 1..m |-> Select(s[j])]

\* $match admissionDate >= trendStart, $group by {$year, $month} with count
\* and fee sum, $sort year, month.
YM(t) == YearOp(t) * MonthsPerYear + (MonthOp(t) - 1)

QMonthlyTrendsRaw(n) ==
  LET hit == {i \in Ids : store[i].admissionDate >= trendStart(n)}
      keys == SortAsc({YM(store[i].admissionDate) : i \in hit})
      grp(k) == {i \in hit : YM(store[i].admissionDate) = k}
  IN [j \in 1..Len(keys) |->
        [_id |-> [year |-> keys[j] \div MonthsPerYear,
                  month |-> (keys[j] % MonthsPerYear) + 1],
         count |-> Cardinality(grp(keys[j])),
         revenue |-> <<SumFee(grp(keys[j])), FeeDen>>]]

-----------------------------------------------------------------------------
(* The handlers *)

OverviewQueries ==
  <<"totalStudents", "studentsThisMonth", "studentsLastMonth", "totalTeachers",
    "newAdmissionsThisMonth", "newAdmissionsLastMonth", "pendingAdmissions",
    "inactiveStudents", "revenueData", "studentsByClass", "studentsByBatch",
    "recentAdmissions", "monthlyTrendsRaw">>

QuickQueries == <<"totalActive", "totalPending", "totalTeachers">>

LocInit ==
  [totalStudents |-> 0, studentsThisMonth |-> 0, studentsLastMonth |-> 0,
   totalTeachers |-> 0, newAdmissionsThisMonth |-> 0,
   newAdmissionsLastMonth |-> 0, pendingAdmissions |-> 0,
   inactiveStudents |-> 0, revenueData |-> <<>>, studentsByClass |-> <<>>,
   studentsByBatch |-> <<>>, recentAdmissions |-> <<>>,
   monthlyTrendsRaw |-> <<>>, totalActive |-> 0, totalPending |-> 0]

\* The value the awaited query q resolves to, on the store as it is now.
RunQuery(q, n) ==
  CASE q = "totalStudents" -> QTotalStudents
    [] q = "studentsThisMonth" -> QStudentsThisMonth(n)
    [] q = "studentsLastMonth" -> QStudentsLastMonth(n)
    [] q = "totalTeachers" -> QTotalTeachers
    [] q = "newAdmissionsThisMonth" -> QNewAdmissionsThisMonth(n)
    [] q = "newAdmissionsLastMonth" -> QNewAdmissionsLastMonth(n)
    [] q = "pendingAdmissions" -> QPendingAdmissions
    [] q = "inactiveStudents" -> QInactiveStudents
    [] q = "revenueData" -> QRevenueData
    [] q = "studentsByClass" -> QStudentsByClass
    [] q = "studentsByBatch" -> QStudentsByBatch
    [] q = "recentAdmissions" -> QRecentAdmissions
    [] q = "monthlyTrendsRaw" -> QMonthlyTrendsRaw(n)
    [] q = "totalActive" -> QTotalStudents
    [] q = "totalPending" -> QPendingAdmissions

\* req.user?.userId
Undefined == "undefined"
UserIdOf(r) == IF r.hasUser THEN r.userId ELSE Undefined

\* Mutant: only req.user is tested.
UnauthenticatedBug(r) == ~r.hasUser

\* !userId
Unauthenticated(r) == UserIdOf(r) \in {Undefined, ""}

monthlyRevenue(l) ==
  IF Len(l.revenueData) > 0 THEN l.revenueData[1].totalMonthlyRevenue
  ELSE Frac(0)

avgMonthlyFee(l) ==
  IF Len(l.revenueData) > 0 THEN l.revenueData[1].avgMonthlyFee
  ELSE Frac(0)

studentGrowth(l) == Growth(l.studentsThisMonth, l.studentsLastMonth)

admissionGrowth(l) == Growth(l.newAdmissionsThisMonth, l.newAdmissionsLastMonth)

\* One pass of the fill loop: the entry of the month i months back.
TrendEntry(raw, n, i) ==
  LET targetDate == NewDate(getFullYear(n), getMonth(n) - i, 1)
      year == getFullYear(targetDate)
      month == getMonth(targetDate) + 1
      found == {j \in 1..Len(raw) :
                  raw[j]._id.year = year /\ raw[j]._id.month = month}
  IN IF found = {}
     THEN [_id |-> [year |-> year, month |-> month], count |-> 0,
           revenue |-> Frac(0)]
     ELSE LET j == CHOOSE k \in found : \A k2 \in found : k <= k2
          IN [_id |-> [year |-> year, month |-> month],
              count |-> raw[j].count, revenue |-> raw[j].revenue]

\* for (let i = 5; i >= 0; i--) push(...)
monthlyTrends(raw, n) ==
  [k \in 1..(TrendBack + 1) |-> TrendEntry(raw, n, TrendBack + 1 - k)]

\* The data of the 200 response.
OverviewData(l, n) ==
  [overview |->
     [totalStudents |-> l.totalStudents,
      totalTeachers |-> l.totalTeachers,
      newAdmissionsThisMonth |-> l.newAdmissionsThisMonth,
      pendingAdmissions |-> l.pendingAdmissions,
      inactiveStudents |-> l.inactiveStudents,
      monthlyRevenue |-> MathRound(monthlyRevenue(l)),
      avgMonthlyFee |-> MathRound(avgMonthlyFee(l))],
   growth |->
     [studentGrowth |-> RoundTenths(studentGrowth(l)),
      admissionGrowth |-> RoundTenths(admissionGrowth(l))],
   distribution |->
     [byClass |-> l.studentsByClass, byBatch |-> l.studentsByBatch],
   recentAdmissions |-> l.recentAdmissions,
   monthlyTrends |-> monthlyTrends(l.monthlyTrendsRaw, n)]

QuickData(l) ==
  [totalActive |-> l.totalActive, totalPending |-> l.totalPending,
   totalTeachers |-> l.totalTeachers]

Resp200(d) == [status |-> 200, body |-> [success |-> TRUE, data |-> d]]

Resp401Overview ==
  [status |-> 401,
   body |-> [success |-> FALSE,
             message |-> "Unauthorized - User not authenticated"]]

Resp401Quick ==
  [status |-> 401, body |-> [success |-> FALSE, message |-> "Unauthorized"]]

\* Mutant: the cause is not passed on.
ErrorTextBug(e) == "Unknown error"

\* error instanceof Error ? error.message : "Unknown error"
ErrorText(e) == IF e.isError THEN e.message ELSE "Unknown error"

Resp500Overview(e) ==
  [status |-> 500,
   body |-> [success |-> FALSE, message |-> "Failed to fetch dashboard data",
             error |-> ErrorText(e)]]

Resp500Quick(e) ==
  [status |-> 500,
   body |-> [success |-> FALSE, message |-> "Failed to fetch stats"]]

NoError == [isError |-> FALSE, message |-> ""]
NoReq == [hasUser |-> FALSE, userId |-> Undefined]
NoPrev == <<>>

\* The requests that reach the handlers: no req.user, a req.user without
\* userId, a req.user with one.
Requests ==
  {NoReq, [hasUser |-> TRUE, userId |-> Undefined],
   [hasUser |-> TRUE, userId |-> "u1"]}

\* The rejections of a data-store call: the driver rejects with Error objects,
\* each with its message.
StoreErrors ==
  {[isError |-> TRUE, message |-> "ECONNRESET"],
   [isError |-> TRUE, message |-> "timed out"]}

Begin(h, r) ==
  /\ pc = 0
  /\ handler' = h
  /\ req' = r
  /\ loc' = LocInit
  /\ issued' = <<>>
  /\ thrown' = NoError
  /\ dirty' = FALSE
  /\ UNCHANGED <<store, users, tz, clock, changes, prev, arg, ret>>

StartOverview(r) ==
  /\ Begin("overview", r)
  /\ IF Unauthenticated(r)
     THEN /\ resp' = <<Resp401Overview>>
          /\ pc' = -1
          /\ now' = now
     ELSE /\ resp' = <<>>
          /\ pc' = 1
          /\ now' = clock

StartQuickStats(r) ==
  /\ Begin("quickStats", r)
  /\ now' = now
  /\ IF Unauthenticated(r)
     THEN /\ resp' = <<Resp401Quick>>
          /\ pc' = -1
     ELSE /\ resp' = <<>>
          /\ pc' = 1

\* The awaited query of position pc resolves; after the last one the handler
\* runs on to its 200 response.
OverviewQuery ==
  /\ handler = "overview"
  /\ pc \in 1..Len(OverviewQueries)
  /\ LET q == OverviewQueries[pc]
         l == [loc EXCEPT ![q] = RunQuery(q, now)]
     IN /\ loc' = l
        /\ issued' = Append(issued, q)
        /\ IF pc = Len(OverviewQueries)
           THEN /\ resp' = Append(resp, Resp200(OverviewData(l, now)))
                /\ pc' = -1
           ELSE /\ resp' = resp
                /\ pc' = pc + 1
  /\ UNCHANGED <<store, users, tz, clock, handler, req, now, thrown, changes,
                 dirty, prev, arg, ret>>

\* The awaited query of position pc rejects with e: the catch block answers.
OverviewQueryFail(e) ==
  /\ handler = "overview"
  /\ pc \in 1..Len(OverviewQueries)
  /\ issued' = Append(issued, OverviewQueries[pc])
  /\ thrown' = e
  /\ resp' = Append(resp, Resp500Overview(e))
  /\ pc' = -1
  /\ UNCHANGED <<store, users, tz, clock, handler, req, now, loc, changes,
                 dirty, prev, arg, ret>>

QuickQuery ==
  /\ handler = "quickStats"
  /\ pc \in 1..Len(QuickQueries)
  /\ LET q == QuickQueries[pc]
         l == [loc EXCEPT ![q] = RunQuery(q, now)]
     IN /\ loc' = l
        /\ issued' = Append(issued, q)
        /\ IF pc = Len(QuickQueries)
           THEN /\ resp' = Append(resp, Resp200(QuickData(l)))
                /\ pc' = -1
           ELSE /\ resp' = resp
                /\ pc' = pc + 1
  /\ UNCHANGED <<store, users, tz, clock, handler, req, now, thrown, changes,
                 dirty, prev, arg, ret>>

QuickQueryFail(e) ==
  /\ handler = "quickStats"
  /\ pc \in 1..Len(QuickQueries)
  /\ issued' = Append(issued, QuickQueries[pc])
  /\ thrown' = e
  /\ resp' = Append(resp, Resp500Quick(e))
  /\ pc' = -1
  /\ UNCHANGED <<store, users, tz, clock, handler, req, now, loc, changes,
                 dirty, prev, arg, ret>>

IsReport(r) == r.status = 200

\* The handler has returned; the next request may arrive.  prev keeps the
\* report of a successful overview that saw no write while it ran.
Finish ==
  /\ pc = -1
  /\ pc' = 0
  /\ prev' = IF handler = "overview" /\ Len(resp) = 1 /\ IsReport(resp[1])
                /\ ~dirty
             THEN <<[data |-> resp[1].body.data, now |-> now]>>
             ELSE prev
  /\ handler' = "none"
  /\ req' = NoReq
  /\ now' = 0
  /\ loc' = LocInit
  /\ issued' = <<>>
  /\ thrown' = NoError
  /\ resp' = <<>>
  /\ dirty' = FALSE
  /\ UNCHANGED <<store, users, tz, clock, changes, arg, ret>>

-----------------------------------------------------------------------------
(* The environment: other writers of the collections, and the clock *)

Statuses == {"active", "pending", "inactive", "completed"}

Wrote ==
  /\ dirty' = (pc # 0)
  /\ prev' = NoPrev
  /\ UNCHANGED <<tz, clock, handler, req, pc, now, loc, issued, thrown, resp,
                 arg, ret>>

InsertAdmission(a) ==
  /\ Len(store) < MaxAdmissions
  /\ store' = Append(store, a)
  /\ UNCHANGED <<users, changes>>
  /\ Wrote

SetStatus(i, s) ==
  /\ changes < MaxStatusChanges
  /\ i \in Ids
  /\ store[i].status # s
  /\ store' = [store EXCEPT ![i].status = s]
  /\ changes' = changes + 1
  /\ UNCHANGED users
  /\ Wrote

AddUser(u) ==
  /\ Len(users) < MaxUsers
  /\ users' = Append(users, u)
  /\ UNCHANGED <<store, changes>>
  /\ Wrote

-----------------------------------------------------------------------------
(* Inputs *)

\* Instants named by their UTC fields (month 0-based).
NowA == MkInstant(2024, 1, 1, 1)
NowB == MkInstant(2024, 1, 2, 1)
NowC == MkInstant(2024, 2, 1, 1)
Nows == {NowA, NowB, NowC}

DSepStart == MkInstant(2023, 8, 1, 0)
DJanLast == MkInstant(2024, 0, DaysPerMonth, TicksPerDay - 1)
DFebStart == MkInstant(2024, 1, 1, 0)
DFebMid == MkInstant(2024, 1, 2, 0)
DApr == MkInstant(2024, 3, 1, 1)

Dates == {DSepStart, DJanLast, DFebStart, DFebMid, DApr}

\* 500 and 1001 + 1/FeeDen.
Fees == {500 * FeeDen, 1001 * FeeDen + 1}
Keys == {1, 2}
TZOffsets == {-1, 0, 1}

\* Admissions of the error-handling specification: status and batch vary.
PlainAdmissions ==
  [status : Statuses, admissionDate : {DFebStart}, monthlyFee : {500 * FeeDen},
   class : {1}, batch : Keys]

\* Admissions inserted by concurrent writers: status and class vary.
ConcAdmissions ==
  [status : {"active", "pending"}, admissionDate : {DFebStart},
   monthlyFee : {500 * FeeDen}, class : Keys, batch : {1}]

\* Admissions of the calendar specification: status, date and fee vary.
TimedAdmissions ==
  [status : {"active", "pending"}, admissionDate : Dates, monthlyFee : Fees,
   class : {1}, batch : {1}]

\* User documents as the staff count reads them: role and isActive (a field
\* the query filters on; userSchema does not declare it).
UserDocs ==
  {[role |-> "teacher", isActive |-> TRUE],
   [role |-> "admin", isActive |-> FALSE],
   [role |-> "student", isActive |-> TRUE]}

Counts == 0..MaxCount

-----------------------------------------------------------------------------
(* Specifications *)

Quiet ==
  /\ store = <<>>
  /\ handler = "none"
  /\ req = NoReq
  /\ pc = 0
  /\ now = 0
  /\ loc = LocInit
  /\ issued = <<>>
  /\ thrown = NoError
  /\ resp = <<>>
  /\ changes = 0
  /\ dirty = FALSE
  /\ prev = NoPrev

Overview == \E r \in Requests : StartOverview(r)
QuickStats == \E r \in Requests : StartQuickStats(r)
OverviewFail == \E e \in StoreErrors : OverviewQueryFail(e)
QuickFail == \E e \in StoreErrors : QuickQueryFail(e)

\* Both handlers, callers with and without identity, failing queries; the
\* collections are written between requests.
Init ==
  /\ Quiet
  /\ users = <<>>
  /\ tz = 0
  /\ clock = NowA
  /\ arg = <<0, 0>>
  /\ ret = <<>>

IdleInsert == pc = 0 /\ \E a \in PlainAdmissions : InsertAdmission(a)
IdleAddUser == pc = 0 /\ \E u \in UserDocs : AddUser(u)

Next ==
  \/ Overview
  \/ QuickStats
  \/ OverviewQuery
  \/ OverviewFail
  \/ QuickQuery
  \/ QuickFail
  \/ Finish
  \/ IdleInsert
  \/ IdleAddUser

Spec == Init /\ [][Next]_vars

\* Overviews of an authenticated caller while other processes insert
\* admissions and change their status.
Caller == [hasUser |-> TRUE, userId |-> "u1"]

InitConc ==
  /\ Quiet
  /\ users = <<[role |-> "teacher", isActive |-> TRUE]>>
  /\ tz = 0
  /\ clock = NowA
  /\ arg = <<0, 0>>
  /\ ret = <<>>

CallOverview == StartOverview(Caller)
ConcInsert == \E a \in ConcAdmissions : InsertAdmission(a)
ConcSetStatus == \E i \in 1..MaxAdmissions, s \in Statuses : SetStatus(i, s)

NextConc ==
  \/ CallOverview
  \/ OverviewQuery
  \/ Finish
  \/ ConcInsert
  \/ ConcSetStatus

SpecConc == InitConc /\ [][NextConc]_vars

\* Overviews one after another on a store written only between them, with
\* dated admissions; the clock advances between requests; the server sits in
\* any of the zones.
InitTime ==
  /\ Quiet
  /\ users = <<[role |-> "teacher", isActive |-> TRUE]>>
  /\ tz \in TZOffsets
  /\ clock = NowA
  /\ arg = <<0, 0>>
  /\ ret = <<>>

TimedInsert == pc = 0 /\ \E a \in TimedAdmissions : InsertAdmission(a)

Tick ==
  /\ pc = 0
  /\ \E t \in Nows : t > clock /\ clock' = t
  /\ UNCHANGED <<store, users, tz, handler, req, pc, now, loc, issued, thrown,
                 resp, changes, dirty, prev, arg, ret>>

NextTime ==
  \/ CallOverview
  \/ OverviewQuery
  \/ Finish
  \/ TimedInsert
  \/ Tick

SpecTime == InitTime /\ [][NextTime]_vars

\* The same on a server whose zone is UTC.
InitUTC ==
  /\ Quiet
  /\ users = <<[role |-> "teacher", isActive |-> TRUE]>>
  /\ tz = 0
  /\ clock = NowA
  /\ arg = <<0, 0>>
  /\ ret = <<>>

SpecUTC == InitUTC /\ [][NextTime]_vars

\* The growth computation alone, on every pair of counts.
InitGrowth ==
  /\ Quiet
  /\ users = <<>>
  /\ tz = 0
  /\ clock = NowA
  /\ arg \in Counts \X Counts
  /\ ret = <<>>

\* The growth section the handler assembles from locals holding the counts
\* arg = <<current, prior>>.
GrowthOf(cur, prior) ==
  OverviewData([LocInit EXCEPT !.studentsThisMonth = cur,
                               !.studentsLastMonth = prior,
                               !.newAdmissionsThisMonth = cur,
                               !.newAdmissionsLastMonth = prior], NowA).growth

ApplyGrowth ==
  /\ ret = <<>>
  /\ ret' = <<GrowthOf(arg[1], arg[2])>>
  /\ UNCHANGED <<store, users, tz, clock, handler, req, pc, now, loc, issued,
                 thrown, resp, changes, dirty, prev, arg>>

NextGrowth == ApplyGrowth

SpecGrowth == InitGrowth /\ [][NextGrowth]_vars

-----------------------------------------------------------------------------
(* Properties *)

Abs(x) == IF x < 0 THEN -x ELSE x

Responded == pc = -1
OverviewReport ==
  Responded /\ handler = "overview" /\ Len(resp) = 1 /\ IsReport(resp[1])
Report == resp[1].body.data
CallerAbsent == ~req.hasUser \/ req.userId = Undefined
Failed == thrown # NoError

RECURSIVE SumCounts(_)
SumCounts(s) == IF s = <<>> THEN 0 ELSE Head(s).count + SumCounts(Tail(s))

\* Month of an instant, counted from the epoch, in the zone of offset off.
MonthOf(t, off) == MonthIndex(t + off)

\* C1: a request without caller identity, to either handler, is answered by
\* exactly one 401 and issues no data-store query at any point.
C1_UnauthenticatedNoQuery ==
  (pc # 0 /\ CallerAbsent) =>
    /\ Responded
    /\ Len(resp) = 1
    /\ resp[1].status = 401
    /\ issued = <<>>

C1_Witness ==
  /\ Responded
  /\ handler = "quickStats"
  /\ req.hasUser
  /\ CallerAbsent
  /\ Len(store) > 0
  /\ resp[1].status = 401

\* C2: once a query of the overview has failed, at whatever position, the
\* request has ended with exactly one response, a 500 carrying the generic
\* message and the text of the error and no data, and every query up to the
\* failing one was issued exactly once.
C2_OverviewFailureAborts ==
  (handler = "overview" /\ Failed) =>
    /\ Responded
    /\ resp = <<[status |-> 500,
                 body |-> [success |-> FALSE,
                           message |-> "Failed to fetch dashboard data",
                           error |-> thrown.message]]>>
    /\ issued = SubSeq(OverviewQueries, 1, Len(issued))

C2_Witness ==
  /\ handler = "overview"
  /\ Failed
  /\ Len(issued) = 10
  /\ Len(store) > 0
  /\ thrown.message = "timed out"
  /\ resp[1].status = 500

\* C3: once a count of the quick stats has failed, the 500 response carries
\* the text of the error.
C3_QuickStatsErrorText ==
  (handler = "quickStats" /\ Failed) =>
    /\ Len(resp) = 1
    /\ resp[1].status = 500
    /\ "error" \in DOMAIN resp[1].body
    /\ resp[1].body.error = thrown.message

\* C4: for counts (current, prior) both growth figures are 0 when both are 0,
\* 100 when only prior is 0, and otherwise a number of tenths nearest to
\* (current - prior) / prior * 100, which is -100 when current is 0.
GrowthRule(g, cur, prior) ==
  IF prior = 0
  THEN g = (IF cur = 0 THEN 0 ELSE 1000)
  ELSE /\ 2 * Abs(g * prior - (cur - prior) * 1000) <= prior
       /\ cur = 0 => g = -1000

C4_GrowthRule ==
  ret # <<>> =>
    /\ GrowthRule(ret[1].studentGrowth, arg[1], arg[2])
    /\ GrowthRule(ret[1].admissionGrowth, arg[1], arg[2])

C4_Witness ==
  /\ ret # <<>>
  /\ arg = <<2, 3>>
  /\ ret[1].studentGrowth = -333
  /\ ret[1].admissionGrowth = -333

\* C5: in a successful overview the last-month counts cover every admission
\* dated anywhere in the calendar month before the current one.
InPrevMonth(a) == MonthOf(a.admissionDate, tz) = MonthOf(now, tz) - 1

C5_LastMonthInclusive ==
  OverviewReport =>
    /\ loc.newAdmissionsLastMonth =
         Cardinality({i \in Ids : InPrevMonth(store[i])})
    /\ loc.studentsLastMonth =
         Cardinality({i \in ActiveIds : InPrevMonth(store[i])})

\* C6: the trend of a successful overview has 6 entries, oldest first, one per
\* month from 5 months back to the current month, each holding the number and
\* fee sum of the admissions dated in its month (months read in one zone, the
\* server's or UTC).
TrendMonth(k) == MonthOf(now, tz) - (TrendBack + 1 - k)

TrendCounts(e, k, off) ==
  LET in == {i \in Ids : MonthOf(store[i].admissionDate, off) = TrendMonth(k)}
  IN /\ e.count = Cardinality(in)
     /\ e.revenue[1] * FeeDen = SumFee(in) * e.revenue[2]

C6_TrendSeries ==
  OverviewReport =>
    LET t == Report.monthlyTrends
    IN /\ Len(t) = TrendBack + 1
       /\ \A k \in 1..Len(t) :
            t[k]._id.year * MonthsPerYear + (t[k]._id.month - 1) = TrendMonth(k)
       /\ \/ \A k \in 1..Len(t) : TrendCounts(t[k], k, tz)
          \/ \A k \in 1..Len(t) : TrendCounts(t[k], k, 0)

\* C7: a successful overview returns the report of the previous successful
\* overview when no record was written in between.
C7_Idempotent ==
  (OverviewReport /\ prev # NoPrev) => Report = prev[1].data

\* C7 amended: ... when no record was written in between and both calls fall
\* in the same calendar month of the server.
C7_IdempotentWithinMonth ==
  (OverviewReport /\ prev # NoPrev
     /\ MonthOf(now, tz) = MonthOf(prev[1].now, tz)) =>
    Report = prev[1].data

C7_Witness ==
  /\ OverviewReport
  /\ prev # NoPrev
  /\ now # prev[1].now
  /\ MonthOf(now, tz) = MonthOf(prev[1].now, tz)
  /\ Len(store) = 2
  /\ Report.overview.newAdmissionsThisMonth > 0

\* C8: in a successful overview monthlyRevenue is an integer nearest to the
\* fee sum of the active admissions and avgMonthlyFee an integer nearest to
\* that sum divided by their number; with no active admission both are 0 and
\* the aggregate returned no group to divide.
C8_Revenue ==
  OverviewReport =>
    LET n == Cardinality(ActiveIds)
        total == SumFee(ActiveIds)
        o == Report.overview
    IN IF n = 0
       THEN o.monthlyRevenue = 0 /\ o.avgMonthlyFee = 0 /\ loc.revenueData = <<>>
       ELSE /\ 2 * Abs(o.monthlyRevenue * FeeDen - total) <= FeeDen
            /\ 2 * Abs(o.avgMonthlyFee * n * FeeDen - total) <= n * FeeDen

C8_Witness ==
  /\ OverviewReport
  /\ Cardinality(ActiveIds) = 2
  /\ Len(store) = 2
  /\ store[1].monthlyFee # store[2].monthlyFee
  /\ Report.overview.monthlyRevenue > SumFee(ActiveIds) \div FeeDen

\* C9: in every successful overview the counts by class, and the counts by
\* batch, sum to totalStudents.
SnapshotConsistent ==
  /\ SumCounts(Report.distribution.byClass) = Report.overview.totalStudents
  /\ SumCounts(Report.distribution.byBatch) = Report.overview.totalStudents

C9_SnapshotConsistency == OverviewReport => SnapshotConsistent

\* C9 amended: ... in every successful overview during which no admission
\* was inserted or changed.
C9_ConsistentWhenUndisturbed == (OverviewReport /\ ~dirty) => SnapshotConsistent

C9_Witness ==
  /\ OverviewReport
  /\ ~dirty
  /\ Len(store) = 2
  /\ Report.overview.totalStudents = 1
  /\ Report.overview.pendingAdmissions = 1

\* C10: in a successful overview newAdmissionsThisMonth is the count of the
\* last entry of the trend.
C10_ThisMonthIsLastTrendEntry ==
  OverviewReport =>
    Report.overview.newAdmissionsThisMonth =
      Report.monthlyTrends[Len(Report.monthlyTrends)].count

====
